---- MODULE Spec2Model ----
(***************************************************************************)
(* State-machine model of the keyboard-stats-tracker ingestion path:       *)
(*   KeystrokeBuffer      (src/unnamed/part_006)                            *)
(*   KeystrokeRepository  (src/unnamed/part_009)                            *)
(*   StatisticsService    (src/unnamed/part_003)                            *)
(*   KeystrokeService     (src/src/infrastructure/KeystrokeService.ts)      *)
(*   IPC wiring           (src/src/main/main.ts)                            *)
(*                                                                         *)
(* A record is identified by the ordinal of the add() call that produced   *)
(* it (1, 2, ...).  Every action is one run-to-completion slice of the     *)
(* single-threaded event loop: from a callback's entry to its next await.  *)
(* The statements a save() queues on the SQLite connection are executed    *)
(* one per step, so that everything else may interleave with them.         *)
(***************************************************************************)
EXTENDS Integers, Sequences, FiniteSets, TLC

\* ---------------------------------------------------------------- bounds
MaxRecs    == 3      \* add() calls explored
MaxQueries == 1      \* statistics queries that may be in progress at once
MaxResets  == 1      \* reset-data requests explored
MaxRestores == 1     \* restore-data requests explored
MaxFails   == 4      \* statement failures (INSERT or COMMIT) injected
MaxClock   == 1      \* Date.now() values explored: 0..MaxClock
MaxBackups == 2      \* backup() calls explored
MaxRows    == 2      \* rows the repository calls let the table grow to
MaxBatch   == 2      \* longest batch passed to a direct save()
MaxTable   == 2      \* rows of the tables the reads are explored on
ScaledMaxSize == 2   \* KeystrokeBuffer.maxSize (100), scaled to the queues explored
MaxStatRows == 3     \* rows of the tables the statistics are explored on

\* ------------------------------------------------------ program constants
maxRetries == 3      \* KeystrokeBuffer.maxRetries

Queries == 1..MaxQueries
Keys    == {"daily", "monthly"}

VARIABLES
  \* KeystrokeBuffer
  buffer,                 \* this.buffer: queue of records not yet flushed
  isFlushingInProgress,   \* this.isFlushingInProgress
  flushTimer,             \* this.flushTimer # null (interval armed)
  keystrokesToFlush,      \* flush(): the batch swapped out of the queue
  attempt,                \* flushWithRetry(): attempt argument
  flushPc,                \* "idle" | "saving" | "backoff"
  flushCaller,            \* who awaits the running flush: "add" | "timer" | "stop" | "explicit"
  emits,                  \* counts carried by the 'flushed' events of the current or last flush()
  \* KeystrokeService / KeystrokeBuffer.stop
  stopPc,                 \* "none" | "waiting" | "resolved" | "closed"
  \* KeystrokeRepository and its SQLite connection
  db,                     \* the connection: "open" | "closed" (handle closed, field still set) | "null"
  rows,                   \* committed rows of table keystrokes, in insertion order
  txn,                    \* rows inserted in the open transaction, not yet committed
  inTxn,                  \* a transaction is open on the connection
  stmts,                  \* statements queued by the running save(), in order
  rollbackPending,        \* a ROLLBACK issued by an insert error callback, not yet executed
  saveRejected,           \* the promise of the running save() has been rejected
  backups,                \* snapshot files: sequence of row sequences
  \* StatisticsService
  cache,                  \* this.cache: key -> entry or NoEntry
  qPc,                    \* per query: "idle" | "reading" | "trend" | "read" | "done"
  qKey,                   \* per query: cache key asked for
  qRes,                   \* per query: result computed or returned
  \* IPC handlers
  ipcPc,                  \* "idle" | "reset-copy" | "reset-meta" | "reset-clear" | "restore-close" | "restore-copy"
  \* history
  added,                  \* number of add() calls so far
  addedAtStop,            \* value of added when stop() was called
  saveCalls,              \* repository.save() calls made for the current batch
  rowsAtSave,             \* the committed rows when the running save() was called
  requeued,               \* the batch last returned to the queue after exhausted retries
  storeVer,               \* number of changes so far of the rows visible on the connection
  commitVer,              \* storeVer at the last successful COMMIT
  flushedVer,             \* commitVer of the last flush that emitted 'flushed'
  resets,                 \* reset-data requests so far
  restores,               \* restore-data requests so far
  ipcArg,                 \* restore-data: index of the snapshot asked for
  fails,                  \* statement failures injected so far
  \* KeystrokeRepository called directly, its snapshot files and clock
  now,                    \* Date.now()
  files,                  \* snapshot files on disk: path -> content or NoFile
  meta,                   \* rows of table backups in the active database
  repoPc,                 \* "idle" | "backup-copy" | "backup-meta" | "reset-clear" | "restore" | "restore-copy"
  repoArg,                \* backupPath of the backup() or restore() in progress
  handler,                \* "none" | "reset": the IPC handler awaiting the call in progress
  out,                    \* the result of the last repository call that settled
  lastCall,               \* the repository call that settled last: its name
  roundTrip,              \* progress of a backup, clear, restore sequence of calls
  returned                \* the paths returned by backup() so far, in order

vars == <<buffer, isFlushingInProgress, flushTimer, keystrokesToFlush, attempt,
          flushPc, flushCaller, emits, stopPc, db, rows, txn, inTxn, stmts,
          rollbackPending, saveRejected, backups, cache, qPc, qKey, qRes,
          ipcPc, added, addedAtStop, saveCalls, storeVer, commitVer,
          flushedVer, resets, fails, rowsAtSave, requeued, restores,
          ipcArg, now, files, meta, repoPc, repoArg, handler, out,
          lastCall, roundTrip, returned>>

flushVars == <<isFlushingInProgress, keystrokesToFlush, attempt, flushPc,
               flushCaller, saveCalls, rowsAtSave, emits>>
txnVars   == <<rows, txn, inTxn, rollbackPending, storeVer, commitVer>>
queryVars == <<qPc, qKey, qRes>>
appVars   == <<backups, ipcPc, resets, restores, ipcArg>>
repoVars  == <<now, files, meta, repoPc, repoArg, handler, out, lastCall,
               roundTrip, returned>>

NoEntry == [total |-> -1, asOf |-> -1, expired |-> FALSE]

\* The paths `${dbPath}.backup.${timestamp}`, named by their timestamp.
Paths == 0..MaxClock

\* A path at which no file exists.
NoFile == [keystrokes |-> <<>>, backups |-> <<>>, state |-> "absent"]

\* No backup, clear, restore sequence is under way.
NoTrip == [stage |-> 0, path |-> 0, rows |-> <<>>]

\* No repository call has settled yet.
NoResult == [op |-> "none", a |-> 0, b |-> 0, c |-> 0, err |-> "", res |-> <<>>]

Init ==
  /\ buffer = <<>>
  /\ isFlushingInProgress = FALSE
  /\ flushTimer = TRUE
  /\ keystrokesToFlush = <<>>
  /\ attempt = 0
  /\ flushPc = "idle"
  /\ flushCaller = "add"
  /\ emits = <<>>
  /\ stopPc = "none"
  /\ db = "open"
  /\ rows = <<>>
  /\ txn = <<>>
  /\ inTxn = FALSE
  /\ stmts = <<>>
  /\ rollbackPending = FALSE
  /\ saveRejected = FALSE
  /\ backups = <<>>
  /\ cache = [k \in Keys |-> NoEntry]
  /\ qPc = [q \in Queries |-> "idle"]
  /\ qKey = [q \in Queries |-> "daily"]
  /\ qRes = [q \in Queries |-> NoEntry]
  /\ ipcPc = "idle"
  /\ added = 0
  /\ addedAtStop = 0
  /\ saveCalls = 0
  /\ storeVer = 0
  /\ commitVer = 0
  /\ flushedVer = 0
  /\ resets = 0
  /\ restores = 0
  /\ ipcArg = 0
  /\ fails = 0
  /\ rowsAtSave = <<>>
  /\ requeued = <<>>
  /\ now = 0
  /\ files = [p \in Paths |-> NoFile]
  /\ meta = <<>>
  /\ repoPc = "idle"
  /\ repoArg = 0
  /\ handler = "none"
  /\ out = NoResult
  /\ lastCall = "none"
  /\ roundTrip = NoTrip
  /\ returned = <<>>

\* ------------------------------------------------------------ pure helpers
Range(s) == {s[i] : i \in 1..Len(s)}

Count(r, s) == Cardinality({i \in 1..Len(s) : s[i] = r})

\* ----------------------------------------------------- KeystrokeRepository
\* save(): the statements queued inside db.serialize(), in program order.
SaveStmts(ks) ==
  <<[op |-> "BEGIN", rec |-> 0]>>
    \o [i \in 1..Len(ks) |-> [op |-> "INSERT", rec |-> ks[i]]]
    \o <<[op |-> "COMMIT", rec |-> 0]>>

\* save() up to the point where it returns its promise: it throws when the
\* connection is closed, returns at once on an empty batch, and otherwise
\* queues its statements.
SaveCall(ks) ==
  IF db # "open" THEN stmts' = <<>> /\ saveRejected' = TRUE
  ELSE IF Len(ks) = 0 THEN stmts' = <<>> /\ saveRejected' = FALSE
  ELSE stmts' = SaveStmts(ks) /\ saveRejected' = FALSE

\* ROLLBACK as the engine executes it: the open transaction is discarded.
RolledBack(t) == <<>>

\* Rows visible after COMMIT of the open transaction.
Committed(rs, t) == rs \o t

\* ------------------------------------------------------- KeystrokeBuffer
\* Mutant: the in-progress guard of flush() is missing.
FlushBlockedNever == FALSE

\* flush(): "Prevent concurrent flushes".
FlushBlocked == isFlushingInProgress

\* Mutant: the failed batch is dropped instead of being put back.
RequeueDropped(batch, queue) == queue

\* Mutant: the failed batch is pushed to the tail of the queue.
RequeueAtTail(batch, queue) == queue \o batch

\* flush(): this.buffer.unshift(...keystrokesToFlush) after the last failure.
Requeue(batch, queue) == batch \o queue

\* Mutant: one retry more than maxRetries.
CanRetryOnceMore(a) == a <= maxRetries

\* flushWithRetry(): attempt < this.maxRetries.
CanRetry(a) == a < maxRetries

\* Mutant: a flush starts only when the queue has reached maxSize.
ReturnsBelowMaxSize(queue) == FlushBlocked \/ Len(queue) < ScaledMaxSize

\* Whether a flush() call made now returns without starting a flush.
ReturnsAtOnce(queue) == FlushBlocked \/ queue = <<>>

\* Mutant: the timer is cleared and not started again.
resetFlushTimerClearsOnly == FALSE

\* resetFlushTimer(): clearInterval(), then startFlushTimer(); the value of
\* flushTimer afterwards, TRUE for a running timer.
resetFlushTimer == TRUE

\* flush() from its entry to its first await.  queue is this.buffer and timer
\* is this.flushTimer # null at the time of the call.
Flush(caller, queue, timer) ==
  IF ReturnsAtOnce(queue)
  THEN /\ buffer' = queue
       /\ flushTimer' = timer
       /\ UNCHANGED <<flushVars, stmts, saveRejected>>
  ELSE /\ isFlushingInProgress' = TRUE
       /\ keystrokesToFlush' = queue
       /\ buffer' = <<>>
       /\ flushTimer' = resetFlushTimer
       /\ attempt' = 0
       /\ flushPc' = "saving"
       /\ flushCaller' = caller
       /\ emits' = <<>>
       /\ saveCalls' = 1
       /\ rowsAtSave' = rows
       /\ SaveCall(queue)

\* add(): push, then the fire-and-forget flush().
Add ==
  /\ stopPc = "none"
  /\ added < MaxRecs
  /\ added' = added + 1
  /\ Flush("add", Append(buffer, added + 1), flushTimer)
  /\ UNCHANGED <<stopPc, db, txnVars, backups, cache, queryVars, ipcPc,
                 addedAtStop, flushedVer, resets, restores, ipcArg, fails, requeued>>
  /\ UNCHANGED repoVars

\* The setInterval callback of startFlushTimer().
TimerTick ==
  /\ flushTimer
  /\ Flush("timer", buffer, flushTimer)
  /\ UNCHANGED <<stopPc, db, txnVars, backups, cache, queryVars, ipcPc,
                 added, addedAtStop, flushedVer, resets, restores, ipcArg, fails, requeued>>
  /\ UNCHANGED repoVars

\* KeystrokeService.flush(): an explicit flush request.
ExplicitFlush ==
  /\ stopPc = "none"
  /\ Flush("explicit", buffer, flushTimer)
  /\ UNCHANGED <<stopPc, db, txnVars, backups, cache, queryVars, ipcPc,
                 added, addedAtStop, flushedVer, resets, restores, ipcArg, fails, requeued>>
  /\ UNCHANGED repoVars

\* KeystrokeService.stop(): the listener is stopped, then KeystrokeBuffer.stop()
\* clears the timer and awaits flush().
Stop ==
  /\ stopPc = "none"
  /\ addedAtStop' = added
  /\ Flush("stop", buffer, FALSE)
  /\ stopPc' = IF ReturnsAtOnce(buffer) THEN "resolved" ELSE "waiting"
  /\ UNCHANGED <<db, txnVars, backups, cache, queryVars, ipcPc, added,
                 flushedVer, resets, restores, ipcArg, fails, requeued>>
  /\ UNCHANGED repoVars

\* KeystrokeService.stop() after buffer.stop() has resolved: repository.close().
\* The close waits for the statements already queued on the connection.
Close ==
  /\ stopPc = "resolved"
  /\ stmts = <<>> /\ ~rollbackPending
  /\ ipcPc = "idle"
  /\ stopPc' = "closed"
  /\ db' = "null"
  /\ UNCHANGED <<buffer, flushTimer, flushVars, stmts, saveRejected, txnVars,
                 backups, cache, queryVars, ipcPc, added, addedAtStop,
                 flushedVer, resets, restores, ipcArg, fails, requeued>>
  /\ UNCHANGED repoVars

\* ------------------------------------------- the connection runs save()
DbFrame == UNCHANGED <<buffer, flushTimer, flushVars, stopPc, db, backups,
                       cache, queryVars, ipcPc, added, addedAtStop,
                       flushedVer, resets, restores, ipcArg, requeued,
                       repoVars>>

\* BEGIN TRANSACTION.
DbBegin ==
  /\ stmts # <<>> /\ Head(stmts).op = "BEGIN"
  /\ stmts' = Tail(stmts)
  /\ inTxn' = TRUE
  /\ UNCHANGED <<rows, txn, rollbackPending, saveRejected, storeVer, commitVer>>
  /\ UNCHANGED fails
  /\ DbFrame

\* One INSERT succeeds: into the open transaction, or auto-committed when no
\* transaction is open any more.
DbInsertOk ==
  /\ stmts # <<>> /\ Head(stmts).op = "INSERT"
  /\ stmts' = Tail(stmts)
  /\ IF inTxn
     THEN txn' = Append(txn, Head(stmts).rec) /\ UNCHANGED rows
     ELSE rows' = Append(rows, Head(stmts).rec) /\ UNCHANGED txn
  /\ storeVer' = storeVer + 1
  /\ UNCHANGED <<inTxn, rollbackPending, saveRejected, commitVer>>
  /\ UNCHANGED fails
  /\ DbFrame

\* One INSERT fails: its callback issues ROLLBACK and rejects the promise;
\* the statements queued behind it stay queued.
DbInsertFail ==
  /\ stmts # <<>> /\ Head(stmts).op = "INSERT"
  /\ fails < MaxFails
  /\ fails' = fails + 1
  /\ stmts' = Tail(stmts)
  /\ rollbackPending' = TRUE
  /\ saveRejected' = TRUE
  /\ UNCHANGED <<rows, txn, inTxn, storeVer, commitVer>>
  /\ DbFrame

\* The ROLLBACK issued by an insert error callback executes.  It was issued
\* outside db.serialize(), so its place among the statements still queued is
\* not fixed by the program.
DbRollback ==
  /\ rollbackPending
  /\ rollbackPending' = FALSE
  /\ txn' = RolledBack(txn)
  /\ inTxn' = FALSE
  /\ storeVer' = IF txn = <<>> THEN storeVer ELSE storeVer + 1
  /\ UNCHANGED <<rows, stmts, saveRejected, commitVer>>
  /\ UNCHANGED fails
  /\ DbFrame

\* COMMIT succeeds: the rows of the open transaction land; resolve() has an
\* effect only when the promise was not rejected before.
DbCommitOk ==
  /\ stmts # <<>> /\ Head(stmts).op = "COMMIT"
  /\ inTxn
  /\ stmts' = Tail(stmts)
  /\ rows' = Committed(rows, txn)
  /\ txn' = <<>>
  /\ inTxn' = FALSE
  /\ commitVer' = storeVer
  /\ UNCHANGED storeVer
  /\ UNCHANGED <<rollbackPending, saveRejected>>
  /\ UNCHANGED fails
  /\ DbFrame

\* COMMIT fails (no transaction is active any more, or a write error after
\* which the engine rolls the transaction back): the promise is rejected.
DbCommitFail ==
  /\ stmts # <<>> /\ Head(stmts).op = "COMMIT"
  /\ IF inTxn THEN fails < MaxFails /\ fails' = fails + 1 ELSE UNCHANGED fails
  /\ stmts' = Tail(stmts)
  /\ txn' = <<>>
  /\ inTxn' = FALSE
  /\ storeVer' = IF txn = <<>> THEN storeVer ELSE storeVer + 1
  /\ saveRejected' = TRUE
  /\ UNCHANGED <<rows, rollbackPending, commitVer>>
  /\ DbFrame

\* ------------------------------------ flushWithRetry after save() settled
SaveSettled == flushPc = "saving" /\ stmts = <<>> /\ ~rollbackPending

\* StatisticsService.clearCache().
ClearedCache == [k \in Keys |-> NoEntry]

\* The 'flushed' listener of KeystrokeService calls onDataUpdated, which
\* main.ts wires to clearCache().
OnFlushed(c) == ClearedCache

\* Mutant: flush() has no finally-block, and a caller that awaits it is left
\* waiting.
FlushEndsWithoutFinally ==
  /\ keystrokesToFlush' = <<>>
  /\ flushPc' = "idle"
  /\ UNCHANGED <<isFlushingInProgress, stopPc, attempt, flushCaller,
                 saveCalls, rowsAtSave>>

\* flush(): finally-block, and the promise the caller of stop() awaits.
FlushEnds ==
  /\ isFlushingInProgress' = FALSE
  /\ keystrokesToFlush' = <<>>
  /\ flushPc' = "idle"
  /\ stopPc' = IF flushCaller = "stop" /\ stopPc = "waiting"
               THEN "resolved" ELSE stopPc
  /\ UNCHANGED <<attempt, flushCaller, saveCalls, rowsAtSave>>

\* save() resolved: emit('flushed', keystrokes.length), every listener
\* returns, the batch is dropped.
FlushSucceed ==
  /\ SaveSettled /\ ~saveRejected
  /\ emits' = Append(emits, Len(keystrokesToFlush))
  /\ cache' = OnFlushed(cache)
  /\ flushedVer' = commitVer
  /\ FlushEnds
  /\ UNCHANGED <<buffer, flushTimer, db, stmts, saveRejected, txnVars, backups,
                 queryVars, ipcPc, added, addedAtStop, resets, restores, ipcArg, fails, requeued>>
  /\ UNCHANGED repoVars

\* save() rejected with retries left: wait retryDelay * 2^attempt.
FlushBackoff ==
  /\ SaveSettled /\ saveRejected
  /\ CanRetry(attempt)
  /\ flushPc' = "backoff"
  /\ UNCHANGED <<buffer, flushTimer, isFlushingInProgress, keystrokesToFlush,
                 attempt, flushCaller, emits, saveCalls, rowsAtSave, stopPc, db, stmts,
                 saveRejected, txnVars, backups, cache, queryVars, ipcPc,
                 added, addedAtStop, flushedVer, resets, restores, ipcArg, fails, requeued>>
  /\ UNCHANGED repoVars

\* The backoff delay elapsed: flushWithRetry(keystrokes, attempt + 1).
FlushRetry ==
  /\ flushPc = "backoff"
  /\ attempt' = attempt + 1
  /\ saveCalls' = saveCalls + 1
  /\ flushPc' = "saving"
  /\ rowsAtSave' = rows
  /\ SaveCall(keystrokesToFlush)
  /\ UNCHANGED <<buffer, flushTimer, isFlushingInProgress, keystrokesToFlush,
                 flushCaller, emits, stopPc, db, txnVars, backups, cache, queryVars,
                 ipcPc, added, addedAtStop, flushedVer, resets, restores, ipcArg, fails, requeued>>
  /\ UNCHANGED repoVars

\* save() rejected with no retry left: the batch goes back to the queue.
FlushGiveUp ==
  /\ SaveSettled /\ saveRejected
  /\ ~CanRetry(attempt)
  /\ buffer' = Requeue(keystrokesToFlush, buffer)
  /\ requeued' = keystrokesToFlush
  /\ UNCHANGED emits
  /\ FlushEnds
  /\ UNCHANGED <<flushTimer, db, stmts, saveRejected, txnVars, backups, cache,
                 queryVars, ipcPc, added, addedAtStop, flushedVer, resets, restores, ipcArg, fails>>
  /\ UNCHANGED repoVars

\* save() resolved and 'flushed' was emitted, but a listener threw: emit()
\* rethrows inside the try-block of flushWithRetry(), whose catch-block
\* treats it as a failed attempt.  The listener of KeystrokeService may have
\* cleared the statistics cache before it threw.
ListenerThrows ==
  /\ SaveSettled /\ ~saveRejected
  /\ fails < MaxFails
  /\ fails' = fails + 1
  /\ emits' = Append(emits, Len(keystrokesToFlush))
  /\ \E c \in {cache, OnFlushed(cache)} : cache' = c
  /\ flushedVer' = commitVer
  /\ IF CanRetry(attempt)
     THEN /\ flushPc' = "backoff"
          /\ UNCHANGED <<buffer, isFlushingInProgress, keystrokesToFlush,
                         attempt, flushCaller, saveCalls, rowsAtSave, stopPc,
                         requeued>>
     ELSE /\ buffer' = Requeue(keystrokesToFlush, buffer)
          /\ requeued' = keystrokesToFlush
          /\ FlushEnds
  /\ UNCHANGED <<flushTimer, db, stmts, saveRejected, txnVars, backups,
                 queryVars, ipcPc, added, addedAtStop, resets, restores,
                 ipcArg>>
  /\ UNCHANGED repoVars

\* ----------------------------------------------------- StatisticsService
\* The rows a SELECT on the connection sees: the committed rows and the rows
\* of the transaction open on the same connection.
Visible == rows \o txn

\* getFromCache(): an entry that is present and not expired.
CacheHit(k) == cache[k] # NoEntry /\ ~cache[k].expired

StatFrame == UNCHANGED <<buffer, flushTimer, flushVars, stopPc, db, stmts,
                         saveRejected, txnVars, appVars, added, addedAtStop,
                         flushedVer, fails, requeued, repoVars>>

\* getDailyStats / getMonthlyStats up to the first await: a live entry is
\* returned, an expired one is deleted, and on a miss the store is queried.
QueryStart(q, k) ==
  /\ qPc[q] = "idle"
  /\ qKey' = [qKey EXCEPT ![q] = k]
  /\ IF CacheHit(k)
     THEN /\ qRes' = [qRes EXCEPT ![q] = cache[k]]
          /\ qPc' = [qPc EXCEPT ![q] = "done"]
          /\ UNCHANGED cache
     ELSE /\ cache' = [cache EXCEPT ![k] = NoEntry]
          /\ qRes' = [qRes EXCEPT ![q] = NoEntry]
          /\ qPc' = [qPc EXCEPT ![q] = IF db = "null" THEN "idle" ELSE "reading"]
  /\ StatFrame

\* repository.getStatsByPeriod() answers the first query of the call: the key
\* breakdown, from which totalKeystrokes is summed.
QueryRead(q) ==
  /\ qPc[q] = "reading"
  /\ IF db = "open"
     THEN /\ qRes' = [qRes EXCEPT ![q] =
                [total |-> Len(Visible), asOf |-> storeVer, expired |-> FALSE]]
          /\ qPc' = [qPc EXCEPT ![q] =
                IF qKey[q] = "monthly" THEN "trend" ELSE "read"]
     ELSE /\ qPc' = [qPc EXCEPT ![q] = "idle"]
          /\ UNCHANGED qRes
  /\ UNCHANGED <<cache, qKey>>
  /\ StatFrame

\* getDailyTrendForMonth(): the per-day queries that follow the breakdown.
QueryTrend(q) ==
  /\ qPc[q] = "trend"
  /\ qPc' = [qPc EXCEPT ![q] = IF db = "open" THEN "read" ELSE "idle"]
  /\ UNCHANGED <<cache, qKey, qRes>>
  /\ StatFrame

\* setCache(cacheKey, result); return result.
QueryFinish(q) ==
  /\ qPc[q] = "read"
  /\ cache' = [cache EXCEPT ![qKey[q]] = qRes[q]]
  /\ qPc' = [qPc EXCEPT ![q] = "done"]
  /\ UNCHANGED <<qKey, qRes>>
  /\ StatFrame

\* The caller has consumed the result.
QueryReturn(q) ==
  /\ qPc[q] = "done"
  /\ qPc' = [qPc EXCEPT ![q] = "idle"]
  /\ qRes' = [qRes EXCEPT ![q] = NoEntry]
  /\ qKey' = [qKey EXCEPT ![q] = "daily"]
  /\ UNCHANGED cache
  /\ StatFrame

\* CACHE_TTL_MS have passed since the entry was stored.
TtlElapse(k) ==
  /\ CacheHit(k)
  /\ cache' = [cache EXCEPT ![k].expired = TRUE]
  /\ UNCHANGED queryVars
  /\ StatFrame

\* ------------------------------------------------------ main.ts handlers
IpcFrame == UNCHANGED <<buffer, flushTimer, flushVars, stopPc, stmts,
                        saveRejected, txn, inTxn, rollbackPending, commitVer,
                        cache, queryVars, added, addedAtStop, flushedVer,
                        fails, requeued, repoVars>>

\* 'reset-data': repository.backup() starts copying the database file.
ResetStart ==
  /\ ipcPc = "idle" /\ db = "open"
  /\ resets < MaxResets
  /\ resets' = resets + 1
  /\ ipcPc' = "reset-copy"
  /\ UNCHANGED <<db, rows, storeVer, backups, restores, ipcArg>>
  /\ IpcFrame

\* backup(): fs.copyFile completed; the INSERT INTO backups is issued.
BackupCopy ==
  /\ ipcPc = "reset-copy"
  /\ backups' = Append(backups, rows)
  /\ ipcPc' = "reset-meta"
  /\ UNCHANGED <<db, rows, storeVer, resets, restores, ipcArg>>
  /\ IpcFrame

\* backup() resolved; the handler calls repository.clear().
BackupRecord ==
  /\ ipcPc = "reset-meta"
  /\ ipcPc' = "reset-clear"
  /\ UNCHANGED <<db, rows, storeVer, backups, resets, restores, ipcArg>>
  /\ IpcFrame

\* clear(): DELETE FROM keystrokes runs behind the statements already queued
\* on the connection; the handler returns the backup path.
ClearRun ==
  /\ ipcPc = "reset-clear"
  /\ stmts = <<>> /\ ~rollbackPending
  /\ rows' = <<>>
  /\ storeVer' = storeVer + 1
  /\ ipcPc' = "idle"
  /\ UNCHANGED <<db, backups, resets, restores, ipcArg>>
  /\ IpcFrame

\* 'restore-data' with the path of an existing snapshot: restore() asks the
\* connection to close.
RestoreStart(i) ==
  /\ ipcPc = "idle" /\ db = "open"
  /\ restores < MaxRestores
  /\ restores' = restores + 1
  /\ ipcArg' = i
  /\ ipcPc' = "restore-close"
  /\ UNCHANGED <<db, rows, storeVer, backups, resets>>
  /\ IpcFrame

\* restore(): the connection closed behind the statements already queued.
RestoreClose ==
  /\ ipcPc = "restore-close"
  /\ stmts = <<>> /\ ~rollbackPending
  /\ db' = "closed"
  /\ ipcPc' = "restore-copy"
  /\ UNCHANGED <<rows, storeVer, backups, resets, restores, ipcArg>>
  /\ IpcFrame

\* restore(): the snapshot replaced the database file and initialize()
\* reopened it; the handler returns.
RestoreReopen ==
  /\ ipcPc = "restore-copy"
  /\ rows' = backups[ipcArg]
  /\ storeVer' = storeVer + 1
  /\ db' = "open"
  /\ ipcPc' = "idle"
  /\ UNCHANGED <<backups, resets, restores, ipcArg>>
  /\ IpcFrame

\* Ingestion and shutdown, with statement failures injected.
Next ==
  \/ Add \/ TimerTick \/ ExplicitFlush \/ Stop \/ Close
  \/ DbBegin \/ DbInsertOk \/ DbInsertFail \/ DbRollback
  \/ DbCommitOk \/ DbCommitFail
  \/ FlushSucceed \/ FlushBackoff \/ FlushRetry \/ FlushGiveUp

Spec == Init /\ [][Next]_vars

\* Ingestion with 'flushed' listeners that may throw.
NextListener == Next \/ ListenerThrows

SpecListener == Init /\ [][NextListener]_vars

\* Ingestion by a buffer that is never stopped.
NextLive ==
  \/ Add \/ TimerTick
  \/ DbBegin \/ DbInsertOk \/ DbInsertFail \/ DbRollback
  \/ DbCommitOk \/ DbCommitFail
  \/ FlushSucceed \/ FlushBackoff \/ FlushRetry \/ FlushGiveUp

\* setInterval() keeps firing the timer callback; the engine executes every
\* statement queued on the connection, and fails at most MaxFails of them;
\* the event loop runs every continuation and every setTimeout() callback
\* that is due.
FairLive ==
  /\ WF_vars(TimerTick)
  /\ WF_vars(DbBegin)
  /\ WF_vars(DbInsertOk \/ DbInsertFail)
  /\ WF_vars(DbRollback)
  /\ WF_vars(DbCommitOk \/ DbCommitFail)
  /\ WF_vars(FlushSucceed)
  /\ WF_vars(FlushBackoff)
  /\ WF_vars(FlushRetry)
  /\ WF_vars(FlushGiveUp)

SpecLive == Init /\ [][NextLive]_vars /\ FairLive

\* Ingestion while the application runs, with every statement succeeding:
\* save() is still rejected while restore() has the connection closed.
NextIngestNoFault ==
  \/ Add \/ TimerTick
  \/ DbBegin \/ DbInsertOk \/ DbCommitOk
  \/ FlushSucceed \/ FlushBackoff \/ FlushRetry \/ FlushGiveUp

NextApp ==
  \/ \E q \in Queries, k \in Keys : QueryStart(q, k)
  \/ \E q \in Queries : QueryRead(q)
  \/ \E q \in Queries : QueryTrend(q)
  \/ \E q \in Queries : QueryFinish(q)
  \/ \E q \in Queries : QueryReturn(q)
  \/ \E k \in Keys : TtlElapse(k)
  \/ ResetStart \/ BackupCopy \/ BackupRecord \/ ClearRun
  \/ \E i \in 1..Len(backups) : RestoreStart(i)
  \/ RestoreClose \/ RestoreReopen

\* The statistics queries and the reset / restore handlers running beside
\* an ingestion whose statements all succeed.
SpecApp == Init /\ [][NextIngestNoFault \/ NextApp]_vars

\* ========================================= KeystrokeRepository, directly
\* A record passed to save() is [keyName, timestamp]; keyCode travels with
\* keyName and is left out.  An instant is a whole number of hours since
\* 1970-01-01T00:00Z; the calendar below holds from 1969 on, leap years
\* included.
KeyNames == {"A", "B"}

\* 1970-01-31T23Z, 1970-02-01T00Z, 1970-12-31T23Z, 1971-01-01T00Z.
Instants == {743, 744, 8759, 8760}

\* Offsets of the machine's local time from UTC, in hours.
TzOffsets == {0 - 5, 0, 8}

Events == [keyName : KeyNames, timestamp : Instants]

\* The record the backup / restore exploration saves, any number of times.
RepoEvents == {e \in Events : e.keyName = "A" /\ e.timestamp = 744}

\* Batches of one to MaxBatch records drawn from es.
Batches(es) == UNION {[1..n -> es] : n \in 1..MaxBatch}

IsLeap(y) == y % 4 = 0 /\ (y % 100 # 0 \/ y % 400 = 0)

DaysInYear(y) == IF IsLeap(y) THEN 366 ELSE 365

\* Days before the first day of month m of a common year (13: of the next
\* year), and of year y.
DaysBefore(m) ==
  <<0, 31, 59, 90, 120, 151, 181, 212, 243, 273, 304, 334, 365>>[m]

DaysBeforeIn(y, m) == DaysBefore(m) + (IF IsLeap(y) /\ m > 2 THEN 1 ELSE 0)

\* The year that holds day d, counted from the first day of year y.
RECURSIVE YearFrom(_, _)
YearFrom(y, d) ==
  IF d < DaysInYear(y) THEN y ELSE YearFrom(y + 1, d - DaysInYear(y))

\* Days from 1969-01-01 to the first day of year y.
RECURSIVE DaysBeforeYear(_)
DaysBeforeYear(y) ==
  IF y <= 1969 THEN 0 ELSE DaysBeforeYear(y - 1) + DaysInYear(y - 1)

\* Day d counts from 1970-01-01; day -1 is 1969-12-31.  The fields of each
\* day from 1969 to 1973 are worked out once and looked up afterwards.
CalendarRange == (0 - 365)..1460

YearTable == [d \in CalendarRange |-> YearFrom(1969, d + 365)]

DayInYearTable ==
  [d \in CalendarRange |-> d + 365 - DaysBeforeYear(YearTable[d])]

MonthTable ==
  [d \in CalendarRange |->
     CHOOSE m \in 1..12 :
       /\ DaysBeforeIn(YearTable[d], m) <= DayInYearTable[d]
       /\ DayInYearTable[d] < DaysBeforeIn(YearTable[d], m + 1)]

YearOfDay(d)  == YearTable[d]
DayInYear(d)  == DayInYearTable[d]
MonthOfDay(d) == MonthTable[d]
DateOfDay(d)  == DayInYear(d) - DaysBeforeIn(YearOfDay(d), MonthOfDay(d)) + 1

\* Date.UTC(y, m - 1, d), in hours.
DateUTC(y, m, d) == 24 * (DaysBeforeYear(y) - 365 + DaysBeforeIn(y, m) + d - 1)

\* Mutant: the date is built from UTC fields.
DateLocalAsUtc(y, m, d, tz) == DateUTC(y, m, d)

\* new Date(y, m - 1, d): midnight of the LOCAL date, tz hours ahead of UTC.
DateLocal(y, m, d, tz) == DateUTC(y, m, d) - tz

\* A 'YYYY-MM-DD' string, as a number that orders as the string does.
IsoDate(y, m, d) == y * 10000 + m * 100 + d

\* date.toISOString().split('T')[0]: the calendar date in UTC.
toISODate(t) ==
  IsoDate(YearOfDay(t \div 24), MonthOfDay(t \div 24), DateOfDay(t \div 24))

\* date.getFullYear() and date.getMonth() + 1: fields of the LOCAL time.
getFullYear(t, tz) == YearOfDay((t + tz) \div 24)
getMonth1(t, tz)   == MonthOfDay((t + tz) \div 24)

\* Mutant: February has 28 days in every year.
LastDayCommon(y, m) == DaysBefore(m + 1) - DaysBefore(m)

\* new Date(year, month, 0).getDate(): the last day of the month.
LastDay(y, m) == DaysBeforeIn(y, m + 1) - DaysBeforeIn(y, m)

\* Mutant: the upper bound of the range is exclusive.
InRangeExclusive(t, start, end) == start <= t /\ t < end

\* getByDateRange(): WHERE timestamp >= ? AND timestamp <= ?.
InRange(t, start, end) == start <= t /\ t <= end

\* ORDER BY timestamp: rows with equal timestamps keep their rowid order.
RECURSIVE InsertByTimestamp(_, _)
InsertByTimestamp(r, s) ==
  IF s = <<>> THEN <<r>>
  ELSE IF s[Len(s)].timestamp <= r.timestamp THEN Append(s, r)
  ELSE Append(InsertByTimestamp(r, SubSeq(s, 1, Len(s) - 1)), s[Len(s)])

RECURSIVE OrderByTimestamp(_)
OrderByTimestamp(s) ==
  IF s = <<>> THEN <<>>
  ELSE InsertByTimestamp(s[Len(s)], OrderByTimestamp(SubSeq(s, 1, Len(s) - 1)))

\* getByDateRange(start, end) on the table rs.
GetByDateRange(rs, start, end) ==
  LET Hit(r) == InRange(r.timestamp, start, end)
  IN  OrderByTimestamp(SelectSeq(rs, Hit))

\* getStatsByPeriod(): the bounds [first, last] of the date column.
PeriodBounds(period, anchor, tz) ==
  IF period = "day"
  THEN <<toISODate(anchor), toISODate(anchor)>>
  ELSE IF period = "month"
  THEN <<IsoDate(getFullYear(anchor, tz), getMonth1(anchor, tz), 1),
         IsoDate(getFullYear(anchor, tz), getMonth1(anchor, tz),
                 LastDay(getFullYear(anchor, tz), getMonth1(anchor, tz)))>>
  ELSE <<IsoDate(getFullYear(anchor, tz), 1, 1),
         IsoDate(getFullYear(anchor, tz), 12, 31)>>

\* COUNT(*) ... GROUP BY key_name over the selected rows.
CountByKey(k, rs) == Cardinality({i \in 1..Len(rs) : rs[i].keyName = k})

\* Mutant: ORDER BY count ASC.
RECURSIVE OrderByCountAsc(_, _)
OrderByCountAsc(ks, rs) ==
  IF ks = {} THEN <<>>
  ELSE LET k == CHOOSE x \in ks :
                  \A y \in ks : CountByKey(x, rs) <= CountByKey(y, rs)
       IN  <<[keyName |-> k, count |-> CountByKey(k, rs)]>>
             \o OrderByCountAsc(ks \ {k}, rs)

\* ORDER BY count DESC; groups with equal counts come in the engine's order,
\* here the order CHOOSE fixes.
RECURSIVE OrderByCountDesc(_, _)
OrderByCountDesc(ks, rs) ==
  IF ks = {} THEN <<>>
  ELSE LET k == CHOOSE x \in ks :
                  \A y \in ks : CountByKey(x, rs) >= CountByKey(y, rs)
       IN  <<[keyName |-> k, count |-> CountByKey(k, rs)]>>
             \o OrderByCountDesc(ks \ {k}, rs)

\* getStatsByPeriod(period, anchor) on the table rs, on a machine whose local
\* time is tz hours ahead of UTC.  The date column holds toISODate(timestamp).
GetStatsByPeriod(rs, period, anchor, tz) ==
  LET b      == PeriodBounds(period, anchor, tz)
      Hit(r) == b[1] <= toISODate(r.timestamp) /\ toISODate(r.timestamp) <= b[2]
      sel    == SelectSeq(rs, Hit)
  IN  OrderByCountDesc({k \in KeyNames : CountByKey(k, sel) > 0}, sel)

\* ------------------------------------------------- files and the tables
\* fs.existsSync(path).
existsSync(p) == files[p].state # "absent"

\* Mutant: the snapshot holds no record.
SnapshotEmpty(ks, bs) == [keystrokes |-> <<>>, backups |-> bs, state |-> "complete"]

\* fs.copyFile(dbPath, backupPath) completed: the file holds both tables.
Snapshot(ks, bs) == [keystrokes |-> ks, backups |-> bs, state |-> "complete"]

\* The destination of a copy that has begun but not completed.
Partial == [keystrokes |-> <<>>, backups |-> <<>>, state |-> "partial"]

\* Mutant: the DELETE leaves the oldest row behind.
DeleteKeepsFirst(t) ==
  [t EXCEPT !.keystrokes = IF @ = <<>> THEN <<>> ELSE <<@[1]>>]

\* Mutant: the DELETE empties table backups as well.
DeleteAllTables(t) == [keystrokes |-> <<>>, backups |-> <<>>]

\* clear(): DELETE FROM keystrokes, on the tables t of the database.
DeleteFromKeystrokes(t) == [t EXCEPT !.keystrokes = <<>>]

\* Mutant: the handler clears whether or not the backup succeeded.
AfterBackupAlways(h, ok) == IF h = "reset" THEN "reset-clear" ELSE "idle"

\* What follows a settled backup(): the reset-data handler goes on to
\* clear() only when the backup resolved; its catch block rethrows.
AfterBackup(h, ok) == IF h = "reset" /\ ok THEN "reset-clear" ELSE "idle"

\* Mutant: the existence check of restore() always passes.
BackupFoundAlways(p) == TRUE

\* restore(): fs.existsSync(backupPath).
BackupFound(p) == existsSync(p)

\* ORDER BY created_at DESC; rows of equal created_at keep their rowid order.
RECURSIVE InsertByCreatedDesc(_, _)
InsertByCreatedDesc(r, s) ==
  IF s = <<>> THEN <<r>>
  ELSE IF s[Len(s)].createdAt >= r.createdAt THEN Append(s, r)
  ELSE Append(InsertByCreatedDesc(r, SubSeq(s, 1, Len(s) - 1)), s[Len(s)])

RECURSIVE OrderByCreatedDesc(_)
OrderByCreatedDesc(s) ==
  IF s = <<>> THEN <<>>
  ELSE InsertByCreatedDesc(s[Len(s)], OrderByCreatedDesc(SubSeq(s, 1, Len(s) - 1)))

\* getBackups(): the recorded backups whose file exists, newest first.
ListBackups ==
  LET OnDisk(r) == existsSync(r.backupPath)
  IN  OrderByCreatedDesc(SelectSeq(meta, OnDisk))

\* History: a call that changes the store has settled.  Stage 1: backup()
\* returned path; stage 2: clear() came next; stage 3: restore(path) came
\* next and resolved.  Any other call starts over.
Trip(op, path, ok) ==
  IF op = "backup" /\ ok
  THEN [stage |-> 1, path |-> path, rows |-> rows]
  ELSE IF op = "clear" /\ roundTrip.stage = 1
  THEN [roundTrip EXCEPT !.stage = 2]
  ELSE IF op = "restore" /\ ok /\ roundTrip.stage = 2 /\ path = roundTrip.path
  THEN [roundTrip EXCEPT !.stage = 3]
  ELSE NoTrip

Result(op, a, b, c, err, res) ==
  [op |-> op, a |-> a, b |-> b, c |-> c, err |-> err, res |-> res]

\* What the repository calls leave alone: the buffer, the statements of a
\* buffer flush, the statistics cache and the handlers modelled above.
RepoFrame == UNCHANGED <<buffer, flushTimer, flushVars, stopPc, txn, inTxn,
                         stmts, rollbackPending, saveRejected, storeVer,
                         commitVer, backups, cache, queryVars, ipcPc, added,
                         addedAtStop, flushedVer, resets, restores, ipcArg,
                         requeued>>

\* Time passes: Date.now() returns a later value.
Tick ==
  /\ now < MaxClock
  /\ now' = now + 1
  /\ UNCHANGED <<db, rows, fails, files, meta, repoPc, repoArg, handler, out,
                 lastCall, roundTrip, returned>>
  /\ RepoFrame

\* save(batch) with every statement succeeding.
RepoSave(batch) ==
  /\ repoPc = "idle" /\ db = "open"
  /\ Len(rows) + Len(batch) <= MaxRows
  /\ rows' = Committed(rows, batch)
  /\ out' = Result("save", Len(batch), 0, 0, "", batch)
  /\ lastCall' = "save" /\ roundTrip' = Trip("save", 0, TRUE)
  /\ UNCHANGED <<db, fails, now, files, meta, repoPc, repoArg, handler, returned>>
  /\ RepoFrame

\* backup() is called, by the reset-data handler (h = "reset") or directly:
\* the path is derived from Date.now() and the copy begins.
BackupCall(h) ==
  /\ repoPc = "idle" /\ db = "open"
  /\ Len(returned) < MaxBackups
  /\ handler' = h
  /\ repoArg' = now
  /\ files' = [files EXCEPT ![now] = Partial]
  /\ repoPc' = "backup-copy"
  /\ UNCHANGED <<db, rows, fails, now, meta, out, lastCall, roundTrip, returned>>
  /\ RepoFrame

\* backup(): the copy completed; INSERT INTO backups is issued.
BackupCopyOk ==
  /\ repoPc = "backup-copy"
  /\ files' = [files EXCEPT ![repoArg] = Snapshot(rows, meta)]
  /\ repoPc' = "backup-meta"
  /\ UNCHANGED <<db, rows, fails, now, meta, repoArg, handler, out, lastCall, roundTrip, returned>>
  /\ RepoFrame

\* backup(): the copy failed; the destination is removed or left as it is,
\* and the promise is rejected.
BackupCopyFail ==
  /\ repoPc = "backup-copy"
  /\ \E left \in {NoFile, Partial} : files' = [files EXCEPT ![repoArg] = left]
  /\ repoPc' = AfterBackup(handler, FALSE)
  /\ handler' = IF AfterBackup(handler, FALSE) = "idle" THEN "none" ELSE handler
  /\ out' = Result("backup", repoArg, 0, 0, "copy", <<>>)
  /\ lastCall' = "backup" /\ roundTrip' = Trip("backup", repoArg, FALSE)
  /\ UNCHANGED <<db, rows, fails, now, meta, repoArg, returned>>
  /\ RepoFrame

\* backup(): the metadata row is stored and the path is returned.
BackupMetaOk ==
  /\ repoPc = "backup-meta"
  /\ meta' = Append(meta, [backupPath |-> repoArg, createdAt |-> repoArg])
  /\ returned' = Append(returned, repoArg)
  /\ repoPc' = AfterBackup(handler, TRUE)
  /\ handler' = IF AfterBackup(handler, TRUE) = "idle" THEN "none" ELSE handler
  /\ out' = Result("backup", repoArg, 0, 0, "", <<>>)
  /\ lastCall' = "backup" /\ roundTrip' = Trip("backup", repoArg, TRUE)
  /\ UNCHANGED <<db, rows, fails, now, files, repoArg>>
  /\ RepoFrame

\* backup(): the INSERT INTO backups failed; the promise is rejected and the
\* file stays on disk unlisted.
BackupMetaFail ==
  /\ repoPc = "backup-meta"
  /\ repoPc' = AfterBackup(handler, FALSE)
  /\ handler' = IF AfterBackup(handler, FALSE) = "idle" THEN "none" ELSE handler
  /\ out' = Result("backup", repoArg, 0, 0, "insert", <<>>)
  /\ lastCall' = "backup" /\ roundTrip' = Trip("backup", repoArg, FALSE)
  /\ UNCHANGED <<db, rows, fails, now, files, meta, repoArg, returned>>
  /\ RepoFrame

\* clear(), called directly or by the reset-data handler after its backup.
Clear ==
  /\ repoPc \in {"idle", "reset-clear"} /\ db = "open"
  /\ LET t == DeleteFromKeystrokes([keystrokes |-> rows, backups |-> meta])
     IN  rows' = t.keystrokes /\ meta' = t.backups
  /\ repoPc' = "idle"
  /\ handler' = "none"
  /\ out' = Result("clear", 0, 0, 0, "", <<>>)
  /\ lastCall' = "clear" /\ roundTrip' = Trip("clear", 0, TRUE)
  /\ UNCHANGED <<db, fails, now, files, repoArg, returned>>
  /\ RepoFrame

\* restore(backupPath) is entered.
RestoreCall(p) ==
  /\ repoPc = "idle" /\ db = "open"
  /\ repoArg' = p
  /\ repoPc' = "restore"
  /\ UNCHANGED <<db, rows, fails, now, files, meta, handler, out, lastCall, roundTrip, returned>>
  /\ RepoFrame

\* restore(): a missing file rejects the promise; otherwise the connection
\* is closed and the snapshot is copied over the database file.
RestoreCheck ==
  /\ repoPc = "restore"
  /\ IF BackupFound(repoArg)
     THEN /\ db' = "closed"
          /\ repoPc' = "restore-copy"
          /\ UNCHANGED <<out, lastCall, roundTrip>>
     ELSE /\ repoPc' = "idle"
          /\ out' = Result("restore", repoArg, 0, 0, "BackupNotFound", <<>>)
          /\ lastCall' = "restore" /\ roundTrip' = Trip("restore", repoArg, FALSE)
          /\ UNCHANGED db
  /\ UNCHANGED <<rows, fails, now, files, meta, repoArg, handler, returned>>
  /\ RepoFrame

\* restore(): the copy completed and initialize() reopened the database.  A
\* snapshot whose own copy never completed restores as an empty database.
RestoreCopyOk ==
  /\ repoPc = "restore-copy"
  /\ rows' = files[repoArg].keystrokes
  /\ meta' = files[repoArg].backups
  /\ db' = "open"
  /\ repoPc' = "idle"
  /\ out' = Result("restore", repoArg, 0, 0, "", <<>>)
  /\ lastCall' = "restore" /\ roundTrip' = Trip("restore", repoArg, TRUE)
  /\ UNCHANGED <<fails, now, files, repoArg, handler, returned>>
  /\ RepoFrame

\* restore(): the copy or the reopening failed; the promise is rejected and
\* the repository keeps the closed connection.
RestoreCopyFail ==
  /\ repoPc = "restore-copy"
  /\ repoPc' = "idle"
  /\ out' = Result("restore", repoArg, 0, 0, "copy", <<>>)
  /\ lastCall' = "restore" /\ roundTrip' = Trip("restore", repoArg, FALSE)
  /\ UNCHANGED <<db, rows, fails, now, files, meta, repoArg, handler, returned>>
  /\ RepoFrame

\* getBackups().
GetBackups ==
  /\ repoPc = "idle" /\ db = "open"
  /\ out' = Result("getBackups", 0, 0, 0, "", ListBackups)
  /\ UNCHANGED <<db, rows, fails, now, files, meta, repoPc, repoArg, handler,
                 lastCall, roundTrip, returned>>
  /\ RepoFrame

\* getByDateRange(start, end).
GetByDateRangeCall(start, end) ==
  /\ repoPc = "idle" /\ db = "open"
  /\ out' = Result("getByDateRange", start, end, 0, "", GetByDateRange(rows, start, end))
  /\ UNCHANGED <<db, rows, fails, now, files, meta, repoPc, repoArg, handler,
                 lastCall, roundTrip, returned>>
  /\ RepoFrame

Periods == {"day", "month", "year"}

PeriodNo(period) == IF period = "day" THEN 1 ELSE IF period = "month" THEN 2 ELSE 3

\* getStatsByPeriod(period, anchor) on a machine at offset tz.
GetStatsByPeriodCall(period, anchor, tz) ==
  /\ repoPc = "idle" /\ db = "open"
  /\ out' = Result("getStatsByPeriod", PeriodNo(period), anchor, tz, "",
                   GetStatsByPeriod(rows, period, anchor, tz))
  /\ UNCHANGED <<db, rows, fails, now, files, meta, repoPc, repoArg, handler,
                 lastCall, roundTrip, returned>>
  /\ RepoFrame

\* The repository's backup, clear and restore calls, one at a time.
NextRepo ==
  \/ Tick
  \/ \E batch \in Batches(RepoEvents) : RepoSave(batch)
  \/ \E h \in {"none", "reset"} : BackupCall(h)
  \/ BackupCopyOk \/ BackupCopyFail \/ BackupMetaOk \/ BackupMetaFail
  \/ Clear
  \/ \E p \in Paths : RestoreCall(p)
  \/ RestoreCheck \/ RestoreCopyOk \/ RestoreCopyFail
  \/ GetBackups

SpecRepo == Init /\ [][NextRepo]_vars

\* close(): the handle is closed and this.db is set to null.
RepoClose ==
  /\ repoPc = "idle" /\ db = "open"
  /\ db' = "null"
  /\ repoPc' = "closed"
  /\ out' = Result("close", 0, 0, 0, "", <<>>)
  /\ UNCHANGED <<rows, fails, now, files, meta, repoArg, handler, lastCall,
                 roundTrip, returned>>
  /\ RepoFrame

\* Mutant: initialize() creates the tables anew.
RepoInitializeFresh ==
  /\ repoPc = "closed" /\ db = "null"
  /\ db' = "open"
  /\ repoPc' = "idle"
  /\ rows' = <<>>
  /\ out' = Result("initialize", 0, 0, 0, "", <<>>)
  /\ UNCHANGED <<fails, now, files, meta, repoArg, handler, lastCall,
                 roundTrip, returned>>
  /\ RepoFrame

\* initialize() on the closed repository: the file is opened again and the
\* schema's CREATE TABLE IF NOT EXISTS statements find both tables.
RepoInitialize ==
  /\ repoPc = "closed" /\ db = "null"
  /\ db' = "open"
  /\ repoPc' = "idle"
  /\ out' = Result("initialize", 0, 0, 0, "", <<>>)
  /\ UNCHANGED <<rows, fails, now, files, meta, repoArg, handler, lastCall,
                 roundTrip, returned>>
  /\ RepoFrame

\* The records the calls below save: two that differ in every field.
FrameEvents ==
  {e \in Events : \/ e.keyName = "A" /\ e.timestamp = 744
                  \/ e.keyName = "B" /\ e.timestamp = 8760}

\* Every call of the repository, one at a time, reads included.
NextFrame ==
  \/ \E batch \in Batches(FrameEvents) : RepoSave(batch)
  \/ BackupCall("none")
  \/ BackupCopyOk \/ BackupCopyFail \/ BackupMetaOk \/ BackupMetaFail
  \/ Clear
  \/ \E p \in Paths : RestoreCall(p)
  \/ RestoreCheck \/ RestoreCopyOk \/ RestoreCopyFail
  \/ GetBackups
  \/ GetByDateRangeCall(744, 8760)
  \/ \E period \in Periods : GetStatsByPeriodCall(period, 744, 0)
  \/ RepoClose \/ RepoInitialize

SpecFrame == Init /\ [][NextFrame]_vars

\* Every table of at most MaxTable rows: each is what a series of save()
\* calls leaves behind.
Tables == UNION {[1..n -> Events] : n \in 0..MaxTable}

InitQuery ==
  /\ rows \in Tables
  /\ buffer = <<>> /\ isFlushingInProgress = FALSE /\ flushTimer = TRUE
  /\ keystrokesToFlush = <<>> /\ attempt = 0 /\ flushPc = "idle"
  /\ flushCaller = "add" /\ emits = <<>> /\ stopPc = "none" /\ db = "open"
  /\ txn = <<>> /\ inTxn = FALSE /\ stmts = <<>>
  /\ rollbackPending = FALSE /\ saveRejected = FALSE /\ backups = <<>>
  /\ cache = [k \in Keys |-> NoEntry]
  /\ qPc = [q \in Queries |-> "idle"]
  /\ qKey = [q \in Queries |-> "daily"]
  /\ qRes = [q \in Queries |-> NoEntry]
  /\ ipcPc = "idle" /\ added = 0 /\ addedAtStop = 0 /\ saveCalls = 0
  /\ storeVer = 0 /\ commitVer = 0 /\ flushedVer = 0 /\ resets = 0
  /\ restores = 0 /\ ipcArg = 0 /\ fails = 0 /\ rowsAtSave = <<>>
  /\ requeued = <<>> /\ now = 0
  /\ files = [p \in Paths |-> NoFile]
  /\ meta = <<>> /\ repoPc = "idle" /\ repoArg = 0 /\ handler = "none"
  /\ out = NoResult /\ lastCall = "none" /\ roundTrip = NoTrip
  /\ returned = <<>>

\* The repository's reads of a table.
NextQuery ==
  \/ \E start \in Instants, end \in Instants : GetByDateRangeCall(start, end)
  \/ \E period \in Periods, anchor \in Instants, tz \in TzOffsets :
       GetStatsByPeriodCall(period, anchor, tz)

SpecQuery == InitQuery /\ [][NextQuery]_vars

\* ============================================ StatisticsService, directly
\* 1970-12-31T23Z, 1971-01-01T00Z, 1972-02-29T23Z, 1972-03-01T00Z.
StatInstants == {8759, 8760, 18959, 18960}

StatEvents == [keyName : KeyNames, timestamp : StatInstants]

StatTables == UNION {[1..n -> StatEvents] : n \in 0..MaxStatRows}

StatYears == {1970, 1972}

\* Months asked for; 0 and 13 are rejected.
StatMonths == {0, 1, 2, 3, 12, 13}

\* Mutant: the total is the count of the first entry alone.
SumCountsOfFirst(stats) ==
  IF stats = <<>> THEN 0 ELSE stats[1].count

\* keyBreakdown.reduce((sum, stat) => sum + stat.count, 0).
RECURSIVE SumCounts(_)
SumCounts(stats) ==
  IF stats = <<>> THEN 0
  ELSE stats[1].count + SumCounts(Tail(stats))

\* The sum of a sequence of numbers.
RECURSIVE Sum(_)
Sum(ns) == IF ns = <<>> THEN 0 ELSE ns[1] + Sum(Tail(ns))

\* getDailyStats(): Date.UTC(getUTCFullYear(), getUTCMonth(), getUTCDate()).
UtcMidnight(t) == 24 * (t \div 24)

\* getDailyStats(date) on a cache miss.
GetDailyStats(rs, date, tz) ==
  LET keyBreakdown == GetStatsByPeriod(rs, "day", UtcMidnight(date), tz)
  IN  [totalKeystrokes |-> SumCounts(keyBreakdown),
       trend           |-> <<>>,
       keyBreakdown    |-> keyBreakdown]

\* getDailyTrendForMonth(year, month): one count per day of the month, each
\* from getStatsByPeriod('day', new Date(Date.UTC(year, month - 1, day))).
GetDailyTrendForMonth(rs, year, month, tz) ==
  [day \in 1..LastDay(year, month) |->
     SumCounts(GetStatsByPeriod(rs, "day", DateUTC(year, month, day), tz))]

\* getMonthlyStats(year, month) on a cache miss, month in 1..12.
GetMonthlyStats(rs, year, month, tz) ==
  LET keyBreakdown ==
        GetStatsByPeriod(rs, "month", DateLocal(year, month, 1, tz), tz)
  IN  [totalKeystrokes |-> SumCounts(keyBreakdown),
       trend           |-> GetDailyTrendForMonth(rs, year, month, tz),
       keyBreakdown    |-> keyBreakdown]

\* getMonthlyTrendForYear(year): one count per month, each from
\* getStatsByPeriod('month', anchor).
GetMonthlyTrendForYear(rs, year, tz) ==
  [month \in 1..12 |->
     SumCounts(GetStatsByPeriod(rs, "month", DateUTC(year, month, 1), tz))]

\* getYearlyStats(year) on a cache miss.
GetYearlyStats(rs, year, tz) ==
  LET keyBreakdown ==
        GetStatsByPeriod(rs, "year", DateLocal(year, 1, 1, tz), tz)
  IN  [totalKeystrokes |-> SumCounts(keyBreakdown),
       trend           |-> GetMonthlyTrendForYear(rs, year, tz),
       keyBreakdown    |-> keyBreakdown]

\* Mutant: the first entry is left out.
SliceAfterFirst(stats, limit) ==
  SubSeq(stats, 2, IF limit < Len(stats) THEN limit ELSE Len(stats))

\* stats.slice(0, limit): the entries before index limit, counted from the
\* end when limit is negative.
Slice(stats, limit) ==
  IF limit >= 0
  THEN SubSeq(stats, 1, IF limit < Len(stats) THEN limit ELSE Len(stats))
  ELSE SubSeq(stats, 1, IF Len(stats) + limit > 0 THEN Len(stats) + limit ELSE 0)

\* getTopKeys(period, date, limit).
GetTopKeys(rs, period, date, limit, tz) ==
  Slice(GetStatsByPeriod(rs, period, date, tz), limit)

\* The limits asked for.
Limits == (0 - 1)..3

\* What a statistics call leaves alone.
StatCallFrame ==
  /\ UNCHANGED <<db, rows, fails, now, files, meta, repoPc, repoArg, handler,
                 lastCall, roundTrip, returned>>
  /\ RepoFrame

\* getDailyStats(date) with an empty cache, on a machine at offset tz.
GetDailyStatsCall(date, tz) ==
  /\ out.op = "none" /\ db = "open"
  /\ out' = Result("getDailyStats", date, 0, tz, "",
                   GetDailyStats(rows, date, tz))
  /\ StatCallFrame

\* getMonthlyStats(year, month) with an empty cache.
GetMonthlyStatsCall(year, month, tz) ==
  /\ out.op = "none" /\ db = "open"
  /\ out' = IF month < 1 \/ month > 12
            THEN Result("getMonthlyStats", year, month, tz,
                        "Month must be between 1 and 12", <<>>)
            ELSE Result("getMonthlyStats", year, month, tz, "",
                        GetMonthlyStats(rows, year, month, tz))
  /\ StatCallFrame

\* getYearlyStats(year) with an empty cache.
GetYearlyStatsCall(year, tz) ==
  /\ out.op = "none" /\ db = "open"
  /\ out' = Result("getYearlyStats", year, 0, tz, "",
                   GetYearlyStats(rows, year, tz))
  /\ StatCallFrame

\* getTopKeys(period, date, limit) on a machine at offset tz.
GetTopKeysCall(period, date, limit, tz) ==
  /\ out.op = "none" /\ db = "open"
  /\ out' = Result("getTopKeys", PeriodNo(period), date, tz, "",
                   [limit        |-> limit,
                    keyBreakdown |-> GetTopKeys(rows, period, date, limit, tz)])
  /\ StatCallFrame

InitStats ==
  /\ rows \in StatTables
  /\ buffer = <<>> /\ isFlushingInProgress = FALSE /\ flushTimer = TRUE
  /\ keystrokesToFlush = <<>> /\ attempt = 0 /\ flushPc = "idle"
  /\ flushCaller = "add" /\ emits = <<>> /\ stopPc = "none" /\ db = "open"
  /\ txn = <<>> /\ inTxn = FALSE /\ stmts = <<>>
  /\ rollbackPending = FALSE /\ saveRejected = FALSE /\ backups = <<>>
  /\ cache = [k \in Keys |-> NoEntry]
  /\ qPc = [q \in Queries |-> "idle"]
  /\ qKey = [q \in Queries |-> "daily"]
  /\ qRes = [q \in Queries |-> NoEntry]
  /\ ipcPc = "idle" /\ added = 0 /\ addedAtStop = 0 /\ saveCalls = 0
  /\ storeVer = 0 /\ commitVer = 0 /\ flushedVer = 0 /\ resets = 0
  /\ restores = 0 /\ ipcArg = 0 /\ fails = 0 /\ rowsAtSave = <<>>
  /\ requeued = <<>> /\ now = 0
  /\ files = [p \in Paths |-> NoFile]
  /\ meta = <<>> /\ repoPc = "idle" /\ repoArg = 0 /\ handler = "none"
  /\ out = NoResult /\ lastCall = "none" /\ roundTrip = NoTrip
  /\ returned = <<>>

\* One statistics call on a table, every cache lookup a miss.
NextStats ==
  \/ \E date \in StatInstants, tz \in TzOffsets : GetDailyStatsCall(date, tz)
  \/ \E year \in StatYears, month \in StatMonths, tz \in TzOffsets :
       GetMonthlyStatsCall(year, month, tz)
  \/ \E year \in StatYears, tz \in TzOffsets : GetYearlyStatsCall(year, tz)
  \/ \E period \in Periods, limit \in Limits :
       GetTopKeysCall(period, 18959, limit, 0)

SpecStats == InitStats /\ [][NextStats]_vars

\* ================================== StatisticsService, cache and clock
\* The cache with the clock explicit: now is Date.now() in milliseconds, an
\* entry carries the expiresAt that setCache() gave it, and records reach
\* the store without passing through the buffer.
CACHE_TTL_MS == 5 * 60 * 1000

\* The caller whose calls are followed.
Caller == 1

\* Mutant: no entry is ever served.
LiveNever(k) == FALSE

\* Mutant: an entry is served however old it is.
LiveForever(k) == cache[k] # NoEntry

\* getFromCache(): the entry exists and Date.now() > entry.expiresAt is false.
Live(k) == cache[k] # NoEntry /\ ~(now > cache[k].expiresAt)

\* What getFromCache() found: 0 no entry, 1 a live entry, 2 an expired one.
Found(k) == IF cache[k] = NoEntry THEN 0 ELSE IF Live(k) THEN 1 ELSE 2

CacheFrame == UNCHANGED <<buffer, flushTimer, flushVars, stopPc, db, txn,
                          inTxn, stmts, rollbackPending, saveRejected,
                          commitVer, appVars, added, addedAtStop, flushedVer,
                          fails, requeued, files, meta, repoPc, repoArg,
                          handler, lastCall, roundTrip, returned>>

\* The instants the clock is read at: up to MaxClock milliseconds after the
\* start, and as long after CACHE_TTL_MS.
ClockReadings ==
  (0..MaxClock) \cup (CACHE_TTL_MS..(CACHE_TTL_MS + MaxClock))

\* Time passes.
Elapse(ms) ==
  /\ now + ms \in ClockReadings
  /\ now' = now + ms
  /\ UNCHANGED <<rows, storeVer, cache, queryVars, out>>
  /\ CacheFrame

\* repository.save() of one record, called directly on the store.
DirectSave(e) ==
  /\ db = "open" /\ Len(rows) < MaxRows
  /\ rows' = Committed(rows, <<e>>)
  /\ storeVer' = storeVer + 1
  /\ UNCHANGED <<now, cache, queryVars, out>>
  /\ CacheFrame

\* clearCache().
ClearCache ==
  /\ cache # ClearedCache
  /\ cache' = ClearedCache
  /\ UNCHANGED <<rows, storeVer, now, queryVars, out>>
  /\ CacheFrame

\* getDailyStats / getMonthlyStats up to the first await: getFromCache()
\* returns a live entry, deletes an expired one, and on a miss the store is
\* queried.  out records what the lookup found and the entry it looked at.
GetStatsStart(q, k) ==
  /\ qPc[q] = "idle" /\ db = "open"
  /\ qKey' = [qKey EXCEPT ![q] = k]
  /\ out' = Result("getFromCache", Found(k), now, 0, "", <<cache[k]>>)
  /\ IF Live(k)
     THEN /\ qRes' = [qRes EXCEPT ![q] = cache[k]]
          /\ qPc' = [qPc EXCEPT ![q] = "done"]
          /\ UNCHANGED cache
     ELSE /\ cache' = [cache EXCEPT ![k] = NoEntry]
          /\ qRes' = [qRes EXCEPT ![q] = NoEntry]
          /\ qPc' = [qPc EXCEPT ![q] = "reading"]
  /\ UNCHANGED <<rows, storeVer, now>>
  /\ CacheFrame

\* setCache(cacheKey, result): expiresAt = Date.now() + CACHE_TTL_MS; then
\* return result.
SetCache(q) ==
  /\ qPc[q] = "read"
  /\ cache' = [cache EXCEPT ![qKey[q]] =
                 [total |-> qRes[q].total, asOf |-> qRes[q].asOf,
                  expired |-> FALSE, expiresAt |-> now + CACHE_TTL_MS]]
  /\ qPc' = [qPc EXCEPT ![q] = "done"]
  /\ UNCHANGED <<rows, storeVer, now, qKey, qRes, out>>
  /\ CacheFrame

\* One caller of the statistics service, the clock, and writers of the store.
NextCache ==
  \/ \E ms \in {1, CACHE_TTL_MS} : Elapse(ms)
  \/ \E e \in RepoEvents : DirectSave(e)
  \/ ClearCache
  \/ \E k \in Keys : GetStatsStart(Caller, k)
  \/ QueryRead(Caller)
  \/ QueryTrend(Caller)
  \/ SetCache(Caller)
  \/ QueryReturn(Caller)

SpecCache == Init /\ [][NextCache]_vars

\* ================================================ save(), the stored row
\* The instants saved: the last and the first hour of a UTC day, at the turn
\* of a month, of a year and of February in a leap year.
SaveInstants == Instants \cup StatInstants

SaveEvents == [keyName : KeyNames, timestamp : SaveInstants]

\* date.getUTCHours().
getUTCHours(t) == t % 24

\* Mutant: date and hour are taken from the local time.
BoundValuesLocal(e, tz) ==
  [keyName   |-> e.keyName,
   timestamp |-> e.timestamp,
   date      |-> toISODate(e.timestamp + tz),
   hour      |-> getUTCHours(e.timestamp + tz)]

\* save(): the values bound to one INSERT, for a record e on a machine
\* whose local time is tz hours ahead of UTC.
BoundValues(e, tz) ==
  [keyName   |-> e.keyName,
   timestamp |-> e.timestamp,
   date      |-> toISODate(e.timestamp),
   hour      |-> getUTCHours(e.timestamp)]

\* save([e]) on a machine at offset tz, every statement succeeding: the row
\* is stored with all its columns.
SaveRow(e, tz) ==
  /\ repoPc = "idle" /\ db = "open"
  /\ Len(rows) < MaxRows
  /\ rows' = Committed(rows, <<BoundValues(e, tz)>>)
  /\ out' = Result("save", 1, 0, tz, "", <<e>>)
  /\ UNCHANGED <<db, fails, now, files, meta, repoPc, repoArg, handler,
                 lastCall, roundTrip, returned>>
  /\ RepoFrame

NextSave == \E e \in SaveEvents, tz \in TzOffsets : SaveRow(e, tz)

SpecSave == Init /\ [][NextSave]_vars

\* ====================================================== properties
Sorted(s) == \A i, j \in 1..Len(s) : i < j => s[i] < s[j]

\* C1: every record passed to add() is, in every state, in the live queue,
\* in the batch of the in-flight flush, or in the committed rows of the store.
C1_NoRecordLost ==
  \A r \in 1..added :
    \/ r \in Range(buffer)
    \/ r \in Range(keystrokesToFlush)
    \/ r \in Range(rows)

\* C1 witness: a batch whose retries were exhausted is back in the queue
\* together with a record that was added while that flush was in flight.
C1_Witness ==
  /\ requeued # <<>>
  /\ flushPc = "idle"
  /\ Len(buffer) > Len(requeued)
  /\ saveCalls = maxRetries + 1

\* C2: while a flush is in flight no other flush starts: the in-flight batch
\* is not replaced, no record leaves the queue, and save() is called again
\* only by the retry of the in-flight flush itself.
C2_AtMostOneFlush ==
  [][(isFlushingInProgress /\ isFlushingInProgress')
       => /\ keystrokesToFlush' = keystrokesToFlush
          /\ Len(buffer') >= Len(buffer)
          /\ SubSeq(buffer', 1, Len(buffer)) = buffer
          /\ \/ saveCalls' = saveCalls /\ attempt' = attempt
             \/ /\ flushPc = "backoff" /\ flushPc' = "saving"
                /\ saveCalls' = saveCalls + 1 /\ attempt' = attempt + 1]_vars

\* C2 witness: flush() was called by add() while a save() was still running,
\* and the record stayed in the queue.
C2_Witness ==
  /\ isFlushingInProgress
  /\ flushPc = "saving" /\ stmts # <<>>
  /\ buffer # <<>>

\* C3: when save() has settled, a rejected call has left the committed rows
\* as they were when it was called, and a resolved call has appended exactly
\* its batch.
C3_SaveAllOrNothing ==
  SaveSettled =>
    IF saveRejected THEN rows = rowsAtSave
    ELSE rows = rowsAtSave \o keystrokesToFlush

\* C4: when a save() attempt after the first one succeeds, every record of
\* the batch is in the store exactly once.
C4_ExactlyOnceAfterRetry ==
  (SaveSettled /\ ~saveRejected /\ attempt > 0)
    => \A r \in Range(keystrokesToFlush) : Count(r, rows) = 1

\* C5: the step that gives a batch up puts it in front of the records added
\* meanwhile, and the queue is then in the order of the add() calls.
C5_RequeuedAtFront ==
  [][(flushPc = "saving" /\ flushPc' = "idle" /\ saveRejected)
       => /\ Len(buffer') = Len(keystrokesToFlush) + Len(buffer)
          /\ SubSeq(buffer', 1, Len(keystrokesToFlush)) = keystrokesToFlush
          /\ Sorted(buffer')]_vars

\* C5 witness: a given-up batch stands in front of a record added during its
\* attempt window.
C5_Witness ==
  /\ requeued # <<>>
  /\ flushPc = "idle"
  /\ Len(buffer) > Len(requeued)
  /\ SubSeq(buffer, 1, Len(requeued)) = requeued
  /\ Sorted(buffer)

\* C6 as stated: one flush() calls save() at most 3 times.
C6_AtMostThreeSaves == saveCalls <= 3

\* C6 amended: one flush() calls save() at most maxRetries + 1 = 4 times
\* (the first attempt and maxRetries retries).
C6_AtMostFourSaves == saveCalls <= maxRetries + 1

\* C6 witness: a flush gave its batch up after its fourth save().
C6_Witness ==
  /\ saveCalls = maxRetries + 1
  /\ flushPc = "idle"
  /\ requeued # <<>> /\ buffer # <<>>

\* C7: at the step that resolves stop(), no flush is in flight and every
\* record added before stop() is in the store or back in the queue.
C7_StopWaitsForFlush ==
  [][(stopPc # "resolved" /\ stopPc' = "resolved")
       => /\ ~isFlushingInProgress'
          /\ \A r \in 1..addedAtStop' :
               r \in Range(rows') \/ r \in Range(buffer')]_vars

\* C8: once stop() has resolved the periodic timer is not armed.
C8_TimerStaysCancelled ==
  stopPc \in {"resolved", "closed"} => ~flushTimer

\* C9: a statistics call answered from the cache returns a result that was
\* read from the store when all records of the last flush that emitted
\* 'flushed' were already in it.
C9_NoStaleAfterFlush ==
  [][\A q \in Queries :
       (qPc[q] = "idle" /\ qPc'[q] = "done")
         => qRes'[q].asOf >= flushedVer]_vars

\* C10: the step that completes reset-data or restore-data leaves the
\* aggregation cache without any entry.
C10_CacheEmptyAfterResetRestore ==
  [][(ipcPc \in {"reset-clear", "restore-copy"} /\ ipcPc' = "idle")
       => cache' = ClearedCache]_vars

\* Two tables hold the same records, each as many times.
SameRecords(a, b) ==
  \A e \in Range(a) \cup Range(b) : Count(e, a) = Count(e, b)

\* C11: when backup() returned path p, clear() came next and restore(p) came
\* next and resolved, the table holds the records it held when backup() was
\* called, each as many times.
C11_BackupRestoreRoundTrip ==
  roundTrip.stage = 3 => SameRecords(rows, roundTrip.rows)

\* C11 witness: such a sequence has brought back a table that was not empty.
C11_Witness ==
  /\ roundTrip.stage = 3 /\ lastCall = "restore"
  /\ roundTrip.rows # <<>> /\ rows # <<>>

\* C12: a step of the reset-data handler deletes records only after its
\* backup() resolved with the path of a completed snapshot file; after a
\* failed backup() the handler deletes nothing.
C12_BackupBeforeClear ==
  [][(handler = "reset" /\ rows' # rows)
       => /\ repoPc = "reset-clear"
          /\ lastCall = "backup" /\ out.op = "backup" /\ out.err = ""
          /\ out.a = repoArg
          /\ files[repoArg].state = "complete"]_vars

\* C12 witness: the handler's backup has resolved and its clear() is about to
\* delete the records of a table that is not empty.
C12_Witness ==
  /\ handler = "reset" /\ repoPc = "reset-clear"
  /\ rows # <<>>
  /\ files[repoArg] = Snapshot(rows, SubSeq(meta, 1, Len(meta) - 1))

\* C13: no two backup() calls returned the same path.
C13_BackupPathsUnique ==
  \A i, j \in 1..Len(returned) : i # j => returned[i] # returned[j]

\* C14: every row of table backups names a snapshot file whose copy
\* completed.
C14_MetadataAfterCopy ==
  \A i \in 1..Len(meta) : files[meta[i].backupPath].state = "complete"

\* Every range read and every period read of the table rs is empty.
ReadsEmpty(rs) ==
  /\ \A start \in Instants, end \in Instants :
       GetByDateRange(rs, start, end) = <<>>
  /\ \A period \in Periods, anchor \in Instants, tz \in TzOffsets :
       GetStatsByPeriod(rs, period, anchor, tz) = <<>>

\* C15: once clear() has resolved every read of the table is empty, and a
\* save() that comes next leaves exactly its batch in the table.
C15_ResetIntegrity ==
  [][/\ lastCall' = "clear" => ReadsEmpty(rows')
     /\ (lastCall = "clear" /\ lastCall' = "save")
          => rows' = out'.res /\ Len(rows') = out'.a]_vars

\* C15 witness: clear() has resolved on a table that held records.
C15_Witness ==
  /\ lastCall = "clear" /\ repoPc = "idle"
  /\ roundTrip.stage = 2 /\ roundTrip.rows # <<>>
  /\ rows = <<>>

\* C16: the step in which clear() resolves leaves table backups, the snapshot
\* files and the list getBackups() returns as they were.
C16_ClearKeepsBackups ==
  [][(repoPc \in {"idle", "reset-clear"} /\ repoPc' = "idle"
        /\ lastCall' = "clear" /\ out'.op = "clear")
       => /\ meta' = meta
          /\ files' = files
          /\ ListBackups' = ListBackups]_vars

\* C16 witness: clear() has resolved while a backup was listed.
C16_Witness ==
  /\ lastCall = "clear" /\ out.op = "clear"
  /\ ListBackups # <<>>
  /\ meta # <<>>

\* C17: restore() of a path at which no file exists rejects with the
\* not-found error and leaves the connection open and the tables and the
\* files as they were.
C17_RestoreMissingChangesNothing ==
  [][(repoPc = "restore" /\ repoPc' # "restore" /\ ~existsSync(repoArg))
       => /\ repoPc' = "idle"
          /\ out'.op = "restore" /\ out'.err = "BackupNotFound"
          /\ db' = "open"
          /\ rows' = rows /\ meta' = meta /\ files' = files]_vars

\* C17 witness: restore() of a missing path was rejected on a table that
\* holds records.
C17_Witness ==
  /\ out.op = "restore" /\ out.err = "BackupNotFound"
  /\ ~existsSync(out.a)
  /\ repoPc = "idle" /\ db = "open" /\ rows # <<>>

\* C18: while restore() has the connection closed no flush starts and no
\* save() is called.
C18_RestoreExclusive ==
  [][ipcPc = "restore-copy"
       => ~(flushPc # "saving" /\ flushPc' = "saving")]_vars

\* C19: getByDateRange(start, end) returns every stored record with
\* start <= timestamp <= end as many times as it is stored, nothing else,
\* ordered by timestamp ascending.
C19_GetByRangeInclusiveOrdered ==
  out.op = "getByDateRange" =>
    /\ \A e \in Events :
         Count(e, out.res) =
           IF out.a <= e.timestamp /\ e.timestamp <= out.b
           THEN Count(e, rows) ELSE 0
    /\ \A i, j \in 1..Len(out.res) :
         i < j => out.res[i].timestamp <= out.res[j].timestamp

\* C19 witness: a read returned two records that lie on the two bounds of
\* its range, in the opposite of their insertion order.
C19_Witness ==
  /\ out.op = "getByDateRange" /\ out.a < out.b
  /\ Len(out.res) = 2 /\ Len(rows) = 2
  /\ out.res[1].timestamp = out.a /\ out.res[2].timestamp = out.b
  /\ rows[1].timestamp = out.b /\ rows[2].timestamp = out.a

\* The instant t lies in the UTC calendar month (periodNo 2) or year
\* (periodNo 3) that contains anchor.
InUtcPeriod(periodNo, t, anchor) ==
  /\ YearOfDay(t \div 24) = YearOfDay(anchor \div 24)
  /\ periodNo = 2 => MonthOfDay(t \div 24) = MonthOfDay(anchor \div 24)

\* The count a breakdown gives for key k.
CountIn(res, k) ==
  IF \E i \in 1..Len(res) : res[i].keyName = k
  THEN res[CHOOSE i \in 1..Len(res) : res[i].keyName = k].count
  ELSE 0

\* C20: getStatsByPeriod('month' | 'year', anchor) counts, for each key, the
\* records whose UTC date lies in the UTC month or year containing anchor.
C20_PeriodInUtc ==
  (out.op = "getStatsByPeriod" /\ out.a \in {2, 3}) =>
    \A k \in KeyNames :
      CountIn(out.res, k) =
        Cardinality({i \in 1..Len(rows) :
                       /\ rows[i].keyName = k
                       /\ InUtcPeriod(out.a, rows[i].timestamp, out.b)})

\* The stored records whose UTC date lies in year y and, for m in 1..12, in
\* month m of it.
StoredIn(y, m) ==
  {i \in 1..Len(rows) :
     /\ YearOfDay(rows[i].timestamp \div 24) = y
     /\ m # 0 => MonthOfDay(rows[i].timestamp \div 24) = m}

\* Days of month m of year y by the calendar's rule, stated on its own.
CalendarDays(y, m) ==
  IF m = 2 THEN (IF IsLeap(y) THEN 29 ELSE 28)
  ELSE IF m \in {4, 6, 9, 11} THEN 30 ELSE 31

\* C21: a monthly result's dailyTrend has one entry per calendar day of the
\* month (29 for February of a leap year) and its counts sum to
\* totalKeystrokes.
C21_DailyTrendSumsToTotal ==
  (out.op = "getMonthlyStats" /\ out.err = "") =>
    /\ Len(out.res.trend) = CalendarDays(out.a, out.b)
    /\ Sum(out.res.trend) = out.res.totalKeystrokes

\* C21 witness: February of the leap year 1972, west of UTC, with a record in
\* the last hour of the 29th and one in the first hour of March.
C21_Witness ==
  /\ out.op = "getMonthlyStats" /\ out.a = 1972 /\ out.b = 2 /\ out.c < 0
  /\ Len(out.res.trend) = 29 /\ out.res.trend[29] = 1
  /\ out.res.totalKeystrokes = 1
  /\ \E i, j \in 1..Len(rows) :
       rows[i].timestamp = 18959 /\ rows[j].timestamp = 18960

\* C22: a yearly result's monthlyTrend has twelve entries whose counts sum to
\* totalKeystrokes, whatever the machine's timezone offset.
C22_MonthlyTrendSumsToTotal ==
  out.op = "getYearlyStats" =>
    /\ Len(out.res.trend) = 12
    /\ Sum(out.res.trend) = out.res.totalKeystrokes

\* C23: on a cache miss the total of a daily, monthly or yearly result is the
\* number of stored records whose UTC date lies in the UTC day, month or
\* year asked for, and the breakdown counts each key's records among them.
C23_TotalsCountUtcPeriod ==
  /\ (out.op = "getDailyStats") =>
       /\ out.res.totalKeystrokes =
            Cardinality({i \in 1..Len(rows) :
                           rows[i].timestamp \div 24 = out.a \div 24})
       /\ \A k \in KeyNames :
            CountIn(out.res.keyBreakdown, k) =
              Cardinality({i \in 1..Len(rows) :
                             /\ rows[i].keyName = k
                             /\ rows[i].timestamp \div 24 = out.a \div 24})
  /\ (out.op = "getMonthlyStats" /\ out.err = "") =>
       /\ out.res.totalKeystrokes = Cardinality(StoredIn(out.a, out.b))
       /\ \A k \in KeyNames :
            CountIn(out.res.keyBreakdown, k) =
              Cardinality({i \in StoredIn(out.a, out.b) : rows[i].keyName = k})
  /\ (out.op = "getYearlyStats") =>
       /\ out.res.totalKeystrokes = Cardinality(StoredIn(out.a, 0))
       /\ \A k \in KeyNames :
            CountIn(out.res.keyBreakdown, k) =
              Cardinality({i \in StoredIn(out.a, 0) : rows[i].keyName = k})

\* C23 witness: three records A, B, A of one day give the daily total 3 and
\* the breakdown A: 2, B: 1, on a machine east of UTC.
C23_Witness ==
  /\ out.op = "getDailyStats" /\ out.c > 0
  /\ Len(rows) = 3
  /\ out.res.totalKeystrokes = 3
  /\ out.res.keyBreakdown =
       <<[keyName |-> "A", count |-> 2], [keyName |-> "B", count |-> 1]>>

\* C24: a call for a period whose cached entry is at most CACHE_TTL_MS old
\* and has not been cleared returns that entry in the step of the lookup,
\* without a query of the store and whatever the store holds by then.
C24_CacheHitServesMemo ==
  [][\A k \in Keys :
       (/\ qPc[Caller] = "idle" /\ qPc'[Caller] # "idle" /\ qKey'[Caller] = k
        /\ cache[k] # NoEntry /\ now <= cache[k].expiresAt)
       => /\ qPc'[Caller] = "done"
          /\ qRes'[Caller] = cache[k]
          /\ cache' = cache /\ rows' = rows]_vars

\* C24 witness: a call was served from the cache exactly CACHE_TTL_MS after
\* the entry was stored, although a record had been saved to the store
\* since the entry was computed.
C24_Witness ==
  /\ qPc[Caller] = "done" /\ out.op = "getFromCache" /\ out.a = 1
  /\ qRes[Caller] = out.res[1]
  /\ qRes[Caller].asOf < storeVer /\ qRes[Caller].total < Len(rows)
  /\ out.b = out.res[1].expiresAt

\* C25: no call returns a cached entry once more than CACHE_TTL_MS have
\* passed since setCache() stored it; the first call after that deletes the
\* entry, queries the store and returns what the store holds.
C25_ExpiredNeverServed ==
  [][/\ \A k \in Keys :
         (/\ qPc[Caller] = "idle" /\ qPc'[Caller] # "idle"
          /\ qKey'[Caller] = k
          /\ cache[k] # NoEntry /\ now > cache[k].expiresAt)
         => /\ qPc'[Caller] = "reading"
            /\ cache'[k] = NoEntry
     /\ (qPc[Caller] = "reading" /\ qPc'[Caller] # "reading")
         => qRes'[Caller].total = Len(rows)
     /\ (qPc[Caller] # "done" /\ qPc'[Caller] = "done"
         /\ qPc[Caller] # "idle")
         => /\ qRes'[Caller] = qRes[Caller]
            /\ cache'[qKey[Caller]].expiresAt = now + CACHE_TTL_MS]_vars

\* C25 witness: a call that found an expired entry has returned a total
\* that differs from the one the entry held.
C25_Witness ==
  /\ qPc[Caller] = "done" /\ out.op = "getFromCache" /\ out.a = 2
  /\ out.b > out.res[1].expiresAt
  /\ qRes[Caller].total > out.res[1].total

\* C26: immediately after add() returns, size() is one more than it was
\* immediately before the call.
C26_AddGrowsSizeByOne ==
  [][added' = added + 1 => Len(buffer') = Len(buffer) + 1]_vars

\* C27: while the buffer is not stopped and the store fails only finitely
\* often, every record passed to add() is eventually in the store and the
\* queue eventually empty, whether or not another add() follows: from some
\* point on the queue is empty, no flush is in flight and every record
\* added is in the store.
C27_EventuallyPersisted ==
  <>[](buffer = <<>> /\ ~isFlushingInProgress
       /\ \A r \in 1..added : r \in Range(rows))

\* C27 witness: a batch that came back after every attempt had failed, with
\* a record added during the flush behind it, all of it now in the store and
\* the queue empty.
C27_Witness ==
  /\ Len(requeued) > 0 /\ added > Len(requeued)
  /\ buffer = <<>> /\ ~isFlushingInProgress
  /\ \A r \in 1..added : r \in Range(rows)

FlushEndsDropping ==
  flushPc = "saving" /\ flushPc' = "idle" /\ buffer' = buffer

FlushEndsRequeueing ==
  flushPc = "saving" /\ flushPc' = "idle" /\ buffer' # buffer

\* C29: a flush() emits 'flushed' only after its save() has resolved and
\* before it ends, with the length of its batch; a flush that ends with its
\* batch saved has emitted exactly once, and one that ends with its batch
\* back in the queue, or a call that returns early, has emitted nothing.
C29_OneFlushedPerSuccess ==
  [][/\ emits' # emits /\ emits' # <<>> =>
          /\ SaveSettled /\ ~saveRejected /\ isFlushingInProgress
          /\ emits' = Append(emits, Len(keystrokesToFlush))
     /\ FlushEndsDropping => emits' = <<Len(keystrokesToFlush)>>
     /\ FlushEndsRequeueing => emits' = <<>>
     /\ flushPc' = "idle" => Len(emits') <= 1]_vars

\* C30: flush() settles by resolving even when every attempt has failed:
\* the batch is back in the queue, the in-progress flag is cleared, a
\* stop() that awaits the flush goes on, and the next add() is accepted and
\* starts a flush of the whole queue.
C30_GiveUpIsNotFatal ==
  [][/\ FlushEndsRequeueing =>
          /\ Len(buffer') >= Len(keystrokesToFlush) /\ Len(buffer') > 0
          /\ ~isFlushingInProgress'
          /\ (flushCaller = "stop" /\ stopPc = "waiting")
               => stopPc' = "resolved"
     /\ (added' = added + 1 /\ requeued # <<>> /\ flushPc = "idle") =>
          /\ isFlushingInProgress' /\ flushPc' = "saving"
          /\ keystrokesToFlush' = Append(buffer, added')]_vars

\* C30 witness: after a flush whose attempts all failed, an add() has
\* started a flush of the returned batch and the new record.
C30_Witness ==
  /\ requeued # <<>> /\ isFlushingInProgress /\ flushCaller = "add"
  /\ Len(keystrokesToFlush) = Len(requeued) + 1
  /\ SubSeq(keystrokesToFlush, 1, Len(requeued)) = requeued

\* The UTC calendar date y-m-d and hour h hold the instant t.
UtcDateHolds(y, m, d, h, t) ==
  /\ m \in 1..12 /\ d \in 1..CalendarDays(y, m) /\ h \in 0..23
  /\ DateUTC(y, m, d) + h = t

\* C31: the date column of every stored row is the UTC calendar date of its
\* timestamp and its hour column the UTC hour, whatever the offset of the
\* machine that saved it.
C31_DayKeyAndHourInUtc ==
  \A i \in 1..Len(rows) :
    /\ rows[i].hour \in 0..23
    /\ UtcDateHolds(rows[i].date \div 10000, (rows[i].date \div 100) % 100,
                    rows[i].date % 100, rows[i].hour, rows[i].timestamp)

\* C31 witness: a machine west of UTC has stored 1972-03-01T00Z, which is
\* 1972-02-29 in its local time, after a row of 1972-02-29T23Z.
C31_Witness ==
  /\ Len(rows) = 2 /\ out.op = "save" /\ out.c < 0
  /\ rows[1].timestamp = 18959 /\ rows[1].date = 19720229
  /\ rows[1].hour = 23
  /\ rows[2].timestamp = 18960 /\ rows[2].date = 19720301
  /\ rows[2].hour = 0

\* The breakdown of the result the last statistics call returned.
Breakdown == out.res.keyBreakdown

StatsReturned ==
  /\ out.op \in {"getDailyStats", "getMonthlyStats", "getYearlyStats"}
  /\ out.err = ""

\* C32: the totalKeystrokes of every daily, monthly or yearly result is the
\* sum of the counts of its keyBreakdown.
C32_TotalIsSumOfBreakdown ==
  StatsReturned =>
    out.res.totalKeystrokes =
      Sum([i \in 1..Len(Breakdown) |-> Breakdown[i].count])

\* C32 witness: a yearly result whose breakdown has two entries, of counts 2
\* and 1.
C32_Witness ==
  /\ out.op = "getYearlyStats" /\ out.res.totalKeystrokes = 3
  /\ Len(Breakdown) = 2
  /\ Breakdown[1].count = 2 /\ Breakdown[2].count = 1

\* C33: the breakdown that a statistics call or getTopKeys returns is in
\* descending order of count.
C33_BreakdownSortedByCountDesc ==
  (StatsReturned \/ out.op = "getTopKeys") =>
    \A i \in 1..(Len(Breakdown) - 1) :
      Breakdown[i].count >= Breakdown[i + 1].count

\* C33 witness: a monthly breakdown puts B, with two records, before A, with
\* one, although A was stored first.
C33_Witness ==
  /\ out.op = "getMonthlyStats" /\ out.err = ""
  /\ Len(rows) = 3 /\ rows[1].keyName = "A"
  /\ Breakdown =
       <<[keyName |-> "B", count |-> 2], [keyName |-> "A", count |-> 1]>>

\* C34: for a limit of zero or more, getTopKeys returns the first
\* min(limit, n) entries of the n-entry breakdown of getStatsByPeriod for its
\* period, hence all n when limit exceeds n.
C34_TopKeysIsPrefix ==
  (out.op = "getTopKeys" /\ out.res.limit >= 0) =>
    LET all == GetStatsByPeriod(rows, CHOOSE p \in Periods : PeriodNo(p) = out.a,
                                out.b, out.c)
        n   == Len(all)
        k   == IF out.res.limit < n THEN out.res.limit ELSE n
    IN  /\ Len(Breakdown) = k
        /\ \A i \in 1..k : Breakdown[i] = all[i]

\* C34 witness: a limit of 1 returned the first of two entries.
C34_Witness ==
  /\ out.op = "getTopKeys" /\ out.res.limit = 1
  /\ Len(Breakdown) = 1 /\ Breakdown[1].count = 2
  /\ Len(GetStatsByPeriod(rows, "day", out.b, out.c)) = 2

\* The table begins with its rows of before, each with its fields as before.
KeepsRows ==
  /\ Len(rows') >= Len(rows)
  /\ \A i \in 1..Len(rows) : rows'[i] = rows[i]

\* C35: the records change only in a step of save(), which appends exactly
\* its batch, of clear() or of restore(); getByDateRange, getStatsByPeriod,
\* backup, getBackups, close and the reopening leave them as they are, and
\* outside clear() and restore() every row keeps its fields.
C35_RecordsChangeOnlyBySaveClearRestore ==
  [][ /\ rows' # rows => out'.op \in {"save", "clear", "restore"}
      /\ (rows' # rows /\ out'.op = "save") => rows' = rows \o out'.res
      /\ (out' # out /\ out'.op = "save") => rows' = rows \o out'.res
      /\ (out' # out /\ out'.op \in {"getByDateRange", "getStatsByPeriod",
                                     "backup", "getBackups", "close",
                                     "initialize"}) => rows' = rows
      /\ (repoPc \in {"backup-copy", "backup-meta", "closed"}
            \/ repoPc' \in {"backup-copy", "closed"}) => rows' = rows
      /\ (rows' # rows /\ out'.op \notin {"clear", "restore"}) => KeepsRows
    ]_vars

\* C35 witness: two different records are stored, a backup of them exists,
\* and the repository has just been closed and opened again.
C35_Witness ==
  /\ out.op = "initialize" /\ db = "open"
  /\ Len(rows) = 2 /\ rows[1] # rows[2]
  /\ \E p \in Paths : files[p].state = "complete" /\ files[p].keystrokes = rows

\* C36: flushWithRetry() calls save() again for its batch, or returns the
\* batch to the queue, only when the save() before rejected; a listener of
\* 'flushed' that throws after a resolved save() causes neither.
C36_SavedAgainOnlyAfterFailedSave ==
  [][/\ (flushPc = "backoff" /\ saveCalls' = saveCalls + 1) => saveRejected
     /\ FlushEndsRequeueing => saveRejected]_vars

\* C37: every backup that getBackups() lists before restore(p), p itself
\* included, is listed after the restore has resolved.
C37_RestoreKeepsBackupHistory ==
  [][(repoPc = "restore-copy" /\ repoPc' = "idle" /\ out'.err = "")
       => \A i \in 1..Len(ListBackups) :
            \E j \in 1..Len(ListBackups') : ListBackups'[j] = ListBackups[i]]_vars

\* C38: a restore() that rejects, at whichever step, leaves the connection
\* open and the records as they were before the call.
C38_RejectedRestoreChangesNothing ==
  [][(repoPc \in {"restore", "restore-copy"} /\ repoPc' = "idle"
        /\ out'.op = "restore" /\ out'.err # "")
       => db' = "open" /\ rows' = rows]_vars

\* C39: the records are written in the order of their add() calls: a record
\* added earlier never follows, in the table, one added later.
C39_WrittenInAddOrder ==
  \A i \in 1..Len(rows) : \A j \in i..Len(rows) : rows[i] <= rows[j]

\* C40: every record the clear() of a reset deletes is in the snapshot that
\* the same reset made.
C40_ResetDeletesOnlyBackedUp ==
  [][(ipcPc = "reset-clear" /\ ipcPc' = "idle")
       => \A i \in 1..Len(rows) : rows[i] \in Range(backups[Len(backups)])]_vars

====
